---- MODULE Spec2Model ----
(***************************************************************************)
(* Model of src/App.tsx (time-passed): the flexible date parser, the       *)
(* calendar delta computed on every render, the week window and the UI     *)
(* handlers that drive them.  The date-fns functions App.tsx calls are     *)
(* modelled by what date-fns v3/v4 does (digit patterns, setter priority,  *)
(* validation, the 1584 normalisation of differenceInYears, the February   *)
(* adjustment of differenceInMonths); the native Date setters overflow as  *)
(* ECMAScript's MakeDay does.                                              *)
(***************************************************************************)
EXTENDS Integers, Sequences, FiniteSets, TLC

VARIABLES selectedDate, inputValue, isOpen, error, now, view, lastOp, parseCall

vars == <<selectedDate, inputValue, isOpen, error, now, view, lastOp, parseCall>>

----------------------------------------------------------------------------
(* A const of the source: e is evaluated once and body F reads its value.  *)

Let(e, F(_)) == CHOOSE r \in {F(x) : x \in {e}} : TRUE

Let2(e1, e2, F(_, _)) == CHOOSE r \in {F(x, y) : x \in {e1}, y \in {e2}} : TRUE

----------------------------------------------------------------------------
(* Native Date: a date is [year, month (0..11), date (1..31), time], time  *)
(* being the time of day: 0 is local midnight, 1 some later instant of     *)
(* that day; the invalid date carries time NaN.                            *)

NaN == 0 - 1

Midnight == 0

Afternoon == 1

InvalidDate == [year |-> 0, month |-> 0, date |-> 0, time |-> NaN]

\* days from 0000-03-01 to the first day of the month that lies mm months
\* after March of year 0 (proleptic Gregorian calendar)
MarchDays(mm) ==
  365 * (mm \div 12) + ((mm \div 12) \div 4) - ((mm \div 12) \div 100)
    + ((mm \div 12) \div 400) + ((153 * (mm % 12) + 2) \div 5)

\* ECMAScript MakeDay: the day number (days since 1970-01-01) of day d of
\* month m of year y, for any integers m and d
MakeDay(y, m, d) == MarchDays(12 * y + m - 2) + d - 1 - 719468

YearOfEra(doe) == (doe - (doe \div 1460) + (doe \div 36524) - (doe \div 146096)) \div 365

DayOfYear(doe, yoe) == doe - (365 * yoe + (yoe \div 4) - (yoe \div 100))

\* the calendar fields of day number z (ECMAScript YearFromTime,
\* MonthFromTime, DateFromTime), with time of day t
FromDay(z, t) ==
  Let(z + 719468, LAMBDA zz :
  Let(YearOfEra(zz % 146097), LAMBDA yoe :
  Let(DayOfYear(zz % 146097, yoe), LAMBDA doy :
  Let((5 * doy + 2) \div 153, LAMBDA mp :
    [year  |-> ((zz \div 146097) * 4800 + yoe * 12 + mp + 2) \div 12,
     month |-> (mp + 2) % 12,
     date  |-> doy - ((153 * mp + 2) \div 5) + 1,
     time  |-> t]))))

DayOf(d) == MakeDay(d.year, d.month, d.date)

\* a Date built of fields that may overflow
MakeDate(y, m, d, t) == FromDay(MakeDay(y, m, d), t)

setFullYear(d, y) == MakeDate(y, d.month, d.date, d.time)

setMonth(d, m) == MakeDate(d.year, m, d.date, d.time)

setDate(d, n) == MakeDate(d.year, d.month, n, d.time)

\* setHours(0, 0, 0, 0)
setHours0(d) == [d EXCEPT !.time = Midnight]

\* Date.prototype.getDay: 0 is Sunday; 1970-01-01 was a Thursday
getDay(d) == (DayOf(d) + 4) % 7

IsLeapYear(y) == (y % 4 = 0 /\ y % 100 # 0) \/ y % 400 = 0

DaysInMonth(y, m) ==
  IF m = 1 THEN (IF IsLeapYear(y) THEN 29 ELSE 28)
  ELSE IF m \in {3, 5, 8, 10} THEN 30 ELSE 31

----------------------------------------------------------------------------
(* date-fns difference functions, as called at App.tsx lines 98-108        *)

Sign(x) == IF x > 0 THEN 1 ELSE IF x < 0 THEN 0 - 1 ELSE 0

\* Math.trunc(x / n)
Trunc(x, n) == Let(x, LAMBDA v : IF v >= 0 THEN v \div n ELSE 0 - ((0 - v) \div n))

Abs(x) == Let(x, LAMBDA v : IF v >= 0 THEN v ELSE 0 - v)

compareAsc(a, b) ==
  Let2(a, b, LAMBDA l, r :
    Let(DayOf(l) - DayOf(r), LAMBDA diff :
      IF diff # 0 THEN Sign(diff) ELSE Sign(l.time - r.time)))

\* both dates are moved to the leap year 1584 to see whether the last year
\* is a full one
differenceInYears(later, earlier) ==
  Let2(compareAsc(later, earlier),
       compareAsc(setFullYear(later, 1584), setFullYear(earlier, 1584)),
       LAMBDA sign, normalized :
         sign * (Abs(later.year - earlier.year)
                   - (IF normalized = 0 - sign THEN 1 ELSE 0)))

isLastDayOfMonth(d) == d.date = DaysInMonth(d.year, d.month)

\* a later date at the end of February is first moved to day 30 (which
\* overflows into March); then the calendar months are taken off it
differenceInMonths(later, earlier) ==
  Let2(compareAsc(later, earlier),
       Abs((later.year - earlier.year) * 12 + (later.month - earlier.month)),
       LAMBDA sign, difference :
         IF difference < 1 THEN 0
         ELSE Let(IF later.month = 1 /\ later.date > 27 THEN setDate(later, 30) ELSE later,
              LAMBDA adjusted :
                Let(compareAsc(setMonth(adjusted, adjusted.month - sign * difference),
                               earlier) = 0 - sign,
                LAMBDA isLastMonthNotFull :
                  IF isLastDayOfMonth(later) /\ difference = 1 /\ sign = 1
                  THEN sign * difference
                  ELSE sign * (difference - (IF isLastMonthNotFull THEN 1 ELSE 0)))))

\* a variant differenceInDays does not compute: the elapsed time in whole
\* 24-hour days rounded down, which makes midnight minus the afternoon of
\* the same day -1
differenceInDaysFloor(later, earlier) ==
  DayOf(later) - DayOf(earlier) - (IF later.time < earlier.time THEN 1 ELSE 0)

differenceInDays(later, earlier) ==
  Let2(compareAsc(later, earlier), Abs(DayOf(later) - DayOf(earlier)),
       LAMBDA sign, difference :
         Let(compareAsc(setDate(later, later.date - sign * difference), earlier) = 0 - sign,
         LAMBDA isLastDayNotFull :
           sign * (difference - (IF isLastDayNotFull THEN 1 ELSE 0))))

differenceInWeeks(later, earlier) == Trunc(differenceInDays(later, earlier), 7)

\* addWeeks is addDays(date, 7 * amount): setDate(getDate() + days)
addWeeks(d, amount) == setDate(d, d.date + 7 * amount)

subWeeks(d, amount) == addWeeks(d, 0 - amount)

\* a variant startOfWeek does not compute: the default weekStartsOn of 0,
\* the Sunday on or before the date
startOfWeekSunday(d) == setHours0(setDate(d, d.date - getDay(d)))

\* startOfWeek(date, { weekStartsOn: 1 })
startOfWeek(d) ==
  Let(getDay(d), LAMBDA day :
    setHours0(setDate(d, d.date - ((IF day < 1 THEN 7 ELSE 0) + day - 1))))

----------------------------------------------------------------------------
(* The render pass of App: lines 83-108                                    *)

weekDaysOf(sel) ==
  Let(startOfWeek(sel), LAMBDA weekStart :
    [i \in 1..7 |-> setDate(weekStart, weekStart.date + (i - 1))])

Render(sel, clock) ==
  Let(setHours0(clock), LAMBDA today :
  Let(differenceInYears(today, sel), LAMBDA years :
  Let(setFullYear(sel, sel.year + years), LAMBDA remainingAfterYears :
  Let(differenceInMonths(today, remainingAfterYears), LAMBDA months :
  Let(setMonth(remainingAfterYears, remainingAfterYears.month + months),
      LAMBDA remainingAfterMonths :
    [today     |-> today,
     years     |-> years,
     months    |-> months,
     days      |-> differenceInDays(today, remainingAfterMonths),
     weeks     |-> differenceInWeeks(today, sel),
     totalDays |-> differenceInDays(today, sel),
     weekDays  |-> weekDaysOf(sel)])))))

----------------------------------------------------------------------------
(* Text: a string is the sequence of its characters.  date-fns parse, as   *)
(* called at App.tsx line 51 with the ro locale.                           *)

Digits == <<"0", "1", "2", "3", "4", "5", "6", "7", "8", "9">>

IsDigit(c) == \E i \in 1..10 : Digits[i] = c

DigitVal(c) == (CHOOSE i \in 1..10 : Digits[i] = c) - 1

IsSpace(c) == c = " "

Drop(s, k) == SubSeq(s, k + 1, Len(s))

IsPrefix(p, s) == Len(p) <= Len(s) /\ SubSeq(s, 1, Len(p)) = p

\* parseInt of the first k characters of s, all digits
RECURSIVE NumVal(_, _)
NumVal(s, k) == IF k = 0 THEN 0 ELSE 10 * NumVal(s, k - 1) + DigitVal(s[k])

\* number of leading digits of s, at most n
RECURSIVE LeadingDigits(_, _)
LeadingDigits(s, n) ==
  IF n = 0 \/ s = <<>> \/ ~IsDigit(s[1]) THEN 0
  ELSE 1 + LeadingDigits(Tail(s), n - 1)

NoMatch == [ok |-> FALSE, value |-> 0, rest |-> <<>>]

Matched(s, k) == [ok |-> TRUE, value |-> NumVal(s, k), rest |-> Drop(s, k)]

\* parseNDigits(n, dateString): the pattern /^\d{1,n}/
parseNDigits(n, s) ==
  Let(LeadingDigits(s, n), LAMBDA k : IF k = 0 THEN NoMatch ELSE Matched(s, k))

\* numericPatterns.date: /^(3[0-1]|[0-2]?\d)/
parseNumericDate(s) ==
  IF s = <<>> \/ ~IsDigit(s[1]) THEN NoMatch
  ELSE IF Len(s) >= 2 /\ s[1] = "3" /\ s[2] \in {"0", "1"} THEN Matched(s, 2)
  ELSE IF Len(s) >= 2 /\ s[1] \in {"0", "1", "2"} /\ IsDigit(s[2]) THEN Matched(s, 2)
  ELSE Matched(s, 1)

\* numericPatterns.month: /^(1[0-2]|0?\d)/
parseNumericMonth(s) ==
  IF s = <<>> \/ ~IsDigit(s[1]) THEN NoMatch
  ELSE IF Len(s) >= 2 /\ s[1] = "1" /\ s[2] \in {"0", "1", "2"} THEN Matched(s, 2)
  ELSE IF Len(s) >= 2 /\ s[1] = "0" /\ IsDigit(s[2]) THEN Matched(s, 2)
  ELSE Matched(s, 1)

\* locale ro, matchMonthPatterns (the alternatives of each pattern, in order)
MonthWide ==
  << <<"i", "a", "n", "u", "a", "r", "i", "e">>,
     <<"f", "e", "b", "r", "u", "a", "r", "i", "e">>,
     <<"m", "a", "r", "t", "i", "e">>,
     <<"a", "p", "r", "i", "l", "i", "e">>,
     <<"m", "a", "i">>,
     <<"i", "u", "n", "i", "e">>,
     <<"i", "u", "l", "i", "e">>,
     <<"a", "u", "g", "u", "s", "t">>,
     <<"s", "e", "p", "t", "e", "m", "b", "r", "i", "e">>,
     <<"o", "c", "t", "o", "m", "b", "r", "i", "e">>,
     <<"n", "o", "i", "e", "m", "b", "r", "i", "e">>,
     <<"d", "e", "c", "e", "m", "b", "r", "i", "e">> >>

MonthAbbreviated ==
  << <<"i", "a", "n">>,
     <<"f", "e", "b">>,
     <<"m", "a", "r">>,
     <<"a", "p", "r">>,
     <<"m", "a", "i">>,
     <<"i", "u", "n">>,
     <<"i", "u", "l">>,
     <<"a", "u", "g">>,
     <<"s", "e", "p">>,
     <<"o", "c", "t">>,
     <<"n", "o", "i">>,
     <<"d", "e", "c">> >>

MonthNarrow ==
  << <<"i">>,
     <<"f">>,
     <<"m">>,
     <<"a">>,
     <<"i">>,
     <<"s">>,
     <<"o">>,
     <<"n">>,
     <<"d">> >>

\* locale ro, parseMonthPatterns
ParseMonthNarrow ==
  << <<"i">>,
     <<"f">>,
     <<"m">>,
     <<"a">>,
     <<"m">>,
     <<"i">>,
     <<"i">>,
     <<"a">>,
     <<"s">>,
     <<"o">>,
     <<"n">>,
     <<"d">> >>

ParseMonthAny ==
  << <<"i", "a">>,
     <<"f">>,
     <<"m", "a", "r">>,
     <<"a", "p">>,
     <<"m", "a", "i">>,
     <<"i", "u", "n">>,
     <<"i", "u", "l">>,
     <<"a", "u">>,
     <<"s">>,
     <<"o">>,
     <<"n">>,
     <<"d">> >>

\* buildMatchFn: the first alternative of the match pattern that starts s is
\* the matched string; its value is the index of the first parse pattern
\* that matches the matched string
matchWidth(s, alternatives, parsePatterns) ==
  Let({i \in 1..Len(alternatives) : IsPrefix(alternatives[i], s)}, LAMBDA hits :
    IF hits = {} THEN NoMatch
    ELSE Let(alternatives[CHOOSE j \in hits : \A h \in hits : j <= h], LAMBDA m :
           Let({k \in 1..Len(parsePatterns) : IsPrefix(parsePatterns[k], m)}, LAMBDA keys :
             [ok    |-> TRUE,
              value |-> (CHOOSE k \in keys : \A h \in keys : k <= h) - 1,
              rest  |-> Drop(s, Len(m))])))

\* MonthParser, token MMMM: wide || abbreviated || narrow
matchMonth(s) ==
  Let(matchWidth(s, MonthWide, ParseMonthAny), LAMBDA wide :
    IF wide.ok THEN wide
    ELSE Let(matchWidth(s, MonthAbbreviated, ParseMonthAny), LAMBDA abbreviated :
           IF abbreviated.ok THEN abbreviated
           ELSE matchWidth(s, MonthNarrow, ParseMonthNarrow)))

\* one numeric month value is mapped to the month index (value - 1)
MonthIndex(r) == Let(r, LAMBDA v : IF v.ok THEN [v EXCEPT !.value = v.value - 1] ELSE v)

\* a literal token: cut it from the string or fail
parseLiteral(tok, s) ==
  IF s # <<>> /\ s[1] = tok THEN [ok |-> TRUE, value |-> 0, rest |-> Tail(s)]
  ELSE NoMatch

\* Parser.run for the tokens DATE_FORMATS uses
runToken(tok, s) ==
  CASE tok = "d"    -> parseNumericDate(s)
    [] tok = "dd"   -> parseNDigits(2, s)
    [] tok = "M"    -> MonthIndex(parseNumericMonth(s))
    [] tok = "MM"   -> MonthIndex(parseNDigits(2, s))
    [] tok = "MMMM" -> matchMonth(s)
    [] tok = "yyyy" -> parseNDigits(4, s)
    [] OTHER        -> parseLiteral(tok, s)

FieldOf(tok) ==
  IF tok \in {"d", "dd"} THEN "date"
  ELSE IF tok \in {"M", "MM", "MMMM"} THEN "month"
  ELSE IF tok = "yyyy" THEN "year" ELSE "none"

\* one round of the token loop of parse: the token is cut from the string
\* left and its value kept; a failed token makes the whole parse fail
scanStep(tok, st) ==
  IF ~st.ok THEN st
  ELSE Let(runToken(tok, st.str), LAMBDA r :
         IF ~r.ok THEN [st EXCEPT !.ok = FALSE]
         ELSE [ok    |-> TRUE,
               str   |-> r.rest,
               year  |-> IF FieldOf(tok) = "year" THEN r.value ELSE st.year,
               month |-> IF FieldOf(tok) = "month" THEN r.value ELSE st.month,
               date  |-> IF FieldOf(tok) = "date" THEN r.value ELSE st.date])

\* the token loop of parse: the string left and the value of each field
RECURSIVE scanTokens(_, _, _)
scanTokens(tokens, i, st) ==
  IF i > Len(tokens) THEN st
  ELSE Let(scanStep(tokens[i], st), LAMBDA next : scanTokens(tokens, i + 1, next))

\* a variant runSetters does not compute: setters with no validate step, so
\* that a day past the end of the month overflows into the next month
runSettersUnchecked(st, referenceDate) ==
  IF ~st.ok THEN InvalidDate
  ELSE IF \E i \in 1..Len(st.str) : ~IsSpace(st.str[i]) THEN InvalidDate
  ELSE IF ~(st.year > 0) THEN InvalidDate
  ELSE IF ~(st.month >= 0 /\ st.month <= 11) THEN InvalidDate
  ELSE setHours0(MakeDate(st.year, st.month, st.date, referenceDate.time))

\* the end of parse: what is left of the string must be whitespace; the
\* setters then run by priority, each validated against the date built so
\* far: YearParser (year > 0; setFullYear(year, 0, 1)), MonthParser (0..11;
\* setMonth(month, 1)), DateParser (1..days of that month; setDate), each
\* followed by setHours(0, 0, 0, 0)
runSetters(st, referenceDate) ==
  IF ~st.ok THEN InvalidDate
  ELSE IF \E i \in 1..Len(st.str) : ~IsSpace(st.str[i]) THEN InvalidDate
  ELSE IF ~(st.year > 0) THEN InvalidDate
  ELSE IF ~(st.month >= 0 /\ st.month <= 11) THEN InvalidDate
  ELSE Let(setHours0(setMonth(setHours0(MakeDate(st.year, 0, 1, referenceDate.time)),
                              st.month)),
       LAMBDA built :
         IF ~(st.date >= 1 /\ st.date <= DaysInMonth(built.year, built.month))
         THEN InvalidDate
         ELSE setHours0(setDate(built, st.date)))

\* parse(dateStr, formatStr, referenceDate), formatStr given as its tokens
parse(dateStr, tokens, referenceDate) ==
  Let(scanTokens(tokens, 1,
        [ok |-> TRUE, str |-> dateStr, year |-> 0, month |-> 0, date |-> 0]),
      LAMBDA st : runSetters(st, referenceDate))

isValid(d) == d.time # NaN

DATE_FORMATS ==
  << <<"dd", ".", "MM", ".", "yyyy">>,
     <<"dd", "-", "MM", "-", "yyyy">>,
     <<"dd", "/", "MM", "/", "yyyy">>,
     <<"d", ".", "M", ".", "yyyy">>,
     <<"d", "-", "M", "-", "yyyy">>,
     <<"d", "/", "M", "/", "yyyy">>,
     <<"dd", " ", "MMMM", " ", "yyyy">>,
     <<"d", " ", "MMMM", " ", "yyyy">>,
     <<"yyyy", "-", "MM", "-", "dd">>,
     <<"yyyy", "/", "MM", "/", "dd">> >>

\* a variant parseFrom does not compute: the loop without its early
\* return, which keeps the result of the last pattern that parses
RECURSIVE parseFromLast(_, _, _)
parseFromLast(value, i, clock) ==
  IF i > Len(DATE_FORMATS) THEN <<>>
  ELSE Let(parseFromLast(value, i + 1, clock), LAMBDA later :
         IF later # <<>> THEN later
         ELSE Let(parse(value, DATE_FORMATS[i], clock), LAMBDA parsed :
                IF isValid(parsed) THEN <<parsed>> ELSE <<>>))

\* the loop of parseFlexibleDate from pattern i on; null is the empty
\* sequence, a date d is <<d>>
RECURSIVE parseFrom(_, _, _)
parseFrom(value, i, clock) ==
  IF i > Len(DATE_FORMATS) THEN <<>>
  ELSE Let(parse(value, DATE_FORMATS[i], clock), LAMBDA parsed :
         IF isValid(parsed) THEN <<parsed>> ELSE parseFrom(value, i + 1, clock))

parseFlexibleDate(value, clock) == parseFrom(value, 1, clock)

\* String.prototype.trim
RECURSIVE trimStart(_)
trimStart(s) == IF s # <<>> /\ IsSpace(s[1]) THEN trimStart(Tail(s)) ELSE s

RECURSIVE trimEnd(_)
trimEnd(s) ==
  IF s # <<>> /\ IsSpace(s[Len(s)]) THEN trimEnd(SubSeq(s, 1, Len(s) - 1)) ELSE s

trim(s) == trimEnd(trimStart(s))

\* addLeadingZeros(n, width)
RECURSIVE addLeadingZeros(_, _)
addLeadingZeros(n, width) ==
  IF width = 0 THEN (IF n = 0 THEN <<>> ELSE addLeadingZeros(n, 1))
  ELSE IF width = 1 /\ n < 10 THEN <<Digits[n + 1]>>
  ELSE Append(addLeadingZeros(n \div 10, IF width > 1 THEN width - 1 ELSE 1),
              Digits[(n % 10) + 1])

\* format(date, "dd.MM.yyyy")
formatDate(d) ==
  addLeadingZeros(d.date, 2) \o <<".">> \o addLeadingZeros(d.month + 1, 2)
    \o <<".">> \o addLeadingZeros(d.year, 4)

----------------------------------------------------------------------------
(* The component state of App (lines 58-61) and its handlers.  now is the  *)
(* system clock read by new Date(); view is what the last render computed; *)
(* lastOp names the handler that ran last and parseCall holds the argument *)
(* that handler passed to parseFlexibleDate (empty when it did not call).  *)

NavDays == 7

CalDays == 1

ClockTicks == 1

ClockStart == [year |-> 2024, month |-> 1, date |-> 28, time |-> Afternoon]

InvalidDateMsg == "Invalid date. Please use a valid format."

\* the texts the user types in the UI specification
Typed ==
  { <<>>,
    <<" ">>,
    <<"2", "9", ".", "0", "2", ".", "2", "0", "2", "3">>,
    <<" ", "5", " ", "m", " ", "2", "0", "2", "4">> }

\* the clock instant after c: later the same day, then the next midnight
NextInstant(c) ==
  IF c.time = Midnight THEN [c EXCEPT !.time = Afternoon]
  ELSE [setDate(c, c.date + 1) EXCEPT !.time = Midnight]

\* the clock instants passed since ClockStart
TicksSince(c) == 2 * (DayOf(c) - DayOf(ClockStart)) + (c.time - ClockStart.time)

InWindow(d) == Abs(DayOf(d) - DayOf(ClockStart)) <= NavDays

Init ==
  /\ now = ClockStart
  /\ selectedDate = now
  /\ inputValue = <<>>
  /\ isOpen = FALSE
  /\ error = <<>>
  /\ view = Render(selectedDate, now)
  /\ lastOp = "init"
  /\ parseCall = <<>>

\* the system clock advances between two user actions; nothing re-renders
Tick ==
  /\ TicksSince(now) < ClockTicks
  /\ now' = NextInstant(now)
  /\ lastOp' = "tick"
  /\ UNCHANGED <<selectedDate, inputValue, isOpen, error, view, parseCall>>

handleInputChange(text) ==
  /\ inputValue' = text
  /\ view' = Render(selectedDate, now)
  /\ lastOp' = "change"
  /\ parseCall' = <<>>
  /\ UNCHANGED <<selectedDate, isOpen, error, now>>

\* a variant handleSearch does not compute: the input is cleared whether or
\* not the text parsed
handleSearchClearing ==
  /\ lastOp' = "search"
  /\ IF inputValue = <<>>
     THEN /\ parseCall' = <<>>
          /\ UNCHANGED <<selectedDate, inputValue, error, view>>
     ELSE \E parsed \in {parseFlexibleDate(trim(inputValue), now)} :
              /\ parseCall' = <<trim(inputValue)>>
              /\ inputValue' = <<>>
              /\ IF parsed # <<>>
                 THEN /\ selectedDate' = parsed[1]
                      /\ error' = <<>>
                 ELSE /\ error' = <<InvalidDateMsg>>
                      /\ UNCHANGED selectedDate
              /\ view' = Render(selectedDate', now)
  /\ UNCHANGED <<isOpen, now>>

handleSearch ==
  /\ lastOp' = "search"
  /\ IF inputValue = <<>>
     THEN /\ parseCall' = <<>>
          /\ UNCHANGED <<selectedDate, inputValue, error, view>>
     ELSE \E parsed \in {parseFlexibleDate(trim(inputValue), now)} :
              /\ parseCall' = <<trim(inputValue)>>
              /\ IF parsed # <<>>
                 THEN /\ selectedDate' = parsed[1]
                      /\ inputValue' = <<>>
                      /\ error' = <<>>
                 ELSE /\ error' = <<InvalidDateMsg>>
                      /\ UNCHANGED <<selectedDate, inputValue>>
              /\ view' = Render(selectedDate', now)
  /\ UNCHANGED <<isOpen, now>>

onBlur ==
  /\ lastOp' = "blur"
  /\ IF inputValue = <<>>
     THEN /\ parseCall' = <<>>
          /\ UNCHANGED <<inputValue, error, view>>
     ELSE \E parsed \in {parseFlexibleDate(trim(inputValue), now)} :
              /\ parseCall' = <<trim(inputValue)>>
              /\ IF parsed # <<>>
                 THEN /\ inputValue' = formatDate(parsed[1])
                      /\ error' = <<>>
                      /\ view' = Render(selectedDate, now)
                 ELSE UNCHANGED <<inputValue, error, view>>
  /\ UNCHANGED <<selectedDate, isOpen, now>>

\* the error popover's onOpenChange (line 132)
onErrorOpenChange ==
  /\ error' = <<>>
  /\ view' = Render(selectedDate, now)
  /\ lastOp' = "dismiss"
  /\ parseCall' = <<>>
  /\ UNCHANGED <<selectedDate, inputValue, isOpen, now>>

\* the calendar popover's onOpenChange (line 159)
setIsOpen ==
  /\ isOpen' = ~isOpen
  /\ view' = Render(selectedDate, now)
  /\ lastOp' = "calendarOpen"
  /\ parseCall' = <<>>
  /\ UNCHANGED <<selectedDate, inputValue, error, now>>

\* the days the calendar offers: a day is disabled when date > new Date()
CalendarDays ==
  {d \in {setDate([now EXCEPT !.time = Midnight], now.date - k) : k \in (0 - CalDays)..CalDays} :
     compareAsc(d, now) # 1}

\* Calendar onSelect with a day (lines 167-174)
onSelect(date) ==
  /\ isOpen
  /\ selectedDate' = date
  /\ inputValue' = <<>>
  /\ isOpen' = FALSE
  /\ error' = <<>>
  /\ view' = Render(date, now)
  /\ lastOp' = "calendar"
  /\ parseCall' = <<>>
  /\ UNCHANGED now

\* Calendar onSelect with undefined (the selected day clicked again)
onSelectNone ==
  /\ isOpen
  /\ lastOp' = "calendarNone"
  /\ parseCall' = <<>>
  /\ UNCHANGED <<selectedDate, inputValue, isOpen, error, view, now>>

handlePrevWeek ==
  /\ InWindow(subWeeks(selectedDate, 1))
  /\ selectedDate' = subWeeks(selectedDate, 1)
  /\ view' = Render(selectedDate', now)
  /\ lastOp' = "prevWeek"
  /\ parseCall' = <<>>
  /\ UNCHANGED <<inputValue, isOpen, error, now>>

handleNextWeek ==
  /\ InWindow(addWeeks(selectedDate, 1))
  /\ selectedDate' = addWeeks(selectedDate, 1)
  /\ view' = Render(selectedDate', now)
  /\ lastOp' = "nextWeek"
  /\ parseCall' = <<>>
  /\ UNCHANGED <<inputValue, isOpen, error, now>>

handleToday ==
  /\ selectedDate' = now
  /\ view' = Render(now, now)
  /\ lastOp' = "today"
  /\ parseCall' = <<>>
  /\ UNCHANGED <<inputValue, isOpen, error, now>>

\* click on cell i of the week grid (lines 290-294)
onDayClick(i) ==
  LET day == view.weekDays[i]
  IN  /\ selectedDate' = day
      /\ inputValue' = formatDate(day)
      /\ error' = <<>>
      /\ view' = Render(day, now)
      /\ lastOp' = "dayClick"
      /\ parseCall' = <<>>
      /\ UNCHANGED <<isOpen, now>>

Next ==
  \/ Tick
  \/ \E text \in Typed : handleInputChange(text)
  \/ handleSearch
  \/ onBlur
  \/ onErrorOpenChange
  \/ setIsOpen
  \/ \E date \in CalendarDays : onSelect(date)
  \/ onSelectNone
  \/ handlePrevWeek
  \/ handleNextWeek
  \/ handleToday
  \/ \E i \in 1..7 : onDayClick(i)

Spec == Init /\ [][Next]_vars

----------------------------------------------------------------------------
(* The delta calculation and the week window as pure functions of the      *)
(* selected date and the clock: the inputs are drawn from a range of       *)
(* dates and one render pass (lines 80-108) is applied to them.            *)

RSpan == 60

TSpan == 400

DeltaFirst == [year |-> 2020, month |-> 0, date |-> 1, time |-> Midnight]

\* the example of the specification's testable properties
ExampleR == [year |-> 2020, month |-> 0, date |-> 15, time |-> Midnight]

ExampleT == [year |-> 2024, month |-> 2, date |-> 20, time |-> Afternoon]

NoView ==
  [today |-> InvalidDate, years |-> 0, months |-> 0, days |-> 0, weeks |-> 0,
   totalDays |-> 0, weekDays |-> <<>>]

InitDelta ==
  /\ \E p \in
       { <<[setDate(DeltaFirst, 1 + r) EXCEPT !.time = t],
           [setDate(DeltaFirst, 1 + r + k) EXCEPT !.time = Afternoon]>> :
           r \in 0..RSpan, k \in 0..TSpan, t \in {Midnight} }
       \cup
       { <<[setDate(DeltaFirst, 1 + r) EXCEPT !.time = Afternoon],
           [setDate(DeltaFirst, 1 + r + k) EXCEPT !.time = Afternoon]>> :
           r \in 0..RSpan, k \in 0..7 }
       \cup {<<ExampleR, ExampleT>>} :
       selectedDate = p[1] /\ now = p[2]
  /\ inputValue = <<>>
  /\ isOpen = FALSE
  /\ error = <<>>
  /\ view = NoView
  /\ lastOp = "init"
  /\ parseCall = <<>>

RenderApp ==
  /\ lastOp = "init"
  /\ view' = Render(selectedDate, now)
  /\ lastOp' = "render"
  /\ UNCHANGED <<selectedDate, inputValue, isOpen, error, now, parseCall>>

SpecDelta == InitDelta /\ [][RenderApp]_vars

----------------------------------------------------------------------------
(* parseFlexibleDate as a pure function of the text: the input is drawn    *)
(* from texts built of a day part, separators, a month part, a year part   *)
(* and optional surrounding characters; Search and blur apply the parser.  *)

LeadParts == {<<>>, <<" ">>}

DayParts == { <<"1">>,
    <<"0", "1">>,
    <<"1", "5">>,
    <<"2", "9">>,
    <<"3", "1">>,
    <<"3", "2">>,
    <<"2", "0", "2", "4">> }

SepParts == {".", "-", "/", " "}

MonthParts == { <<"2">>,
    <<"0", "2">>,
    <<"0", "3">>,
    <<"0", "4">>,
    <<"1", "3">>,
    <<"f", "e", "b", "r", "u", "a", "r", "i", "e">>,
    <<"m", "a", "r">>,
    <<"m">> }

YearParts == { <<"2", "0", "2", "3">>,
    <<"2", "0", "2", "4">>,
    <<"3">>,
    <<"2", "9">>,
    <<"0">> }

TrailParts == {<<>>, <<" ">>, <<"x">>}

InitParse ==
  /\ now = ClockStart
  /\ selectedDate = now
  /\ inputValue \in
       { l \o d \o <<s>> \o m \o <<s>> \o y \o t :
           l \in LeadParts, d \in DayParts, s \in SepParts, m \in MonthParts,
           y \in YearParts, t \in TrailParts }
       \cup {<<"1", "5", "-", "0", "3", ".", "2", "0", "2", "3">>, <<" ">>, <<>>}
  /\ isOpen = FALSE
  /\ error = <<>>
  /\ view = Render(selectedDate, now)
  /\ lastOp = "init"
  /\ parseCall = <<>>

NextParse == handleSearch \/ onBlur

SpecParse == InitParse /\ [][NextParse]_vars

----------------------------------------------------------------------------
(* Properties of the delta calculation and of the week window              *)

\* C1: for a selected date R at midnight and today T with T >= R, the
\* years, months and days of the render are each non-negative, also when R
\* is a 29th, 30th or 31st and the intermediate date rolls over.
C1_NonNegative ==
  (view # NoView /\ selectedDate.time = Midnight
     /\ compareAsc(view.today, selectedDate) >= 0)
    => (view.years >= 0 /\ view.months >= 0 /\ view.days >= 0)

\* C2: for a selected date R at midnight and today T with T >= R, months is
\* in 0..11 and days is smaller than the length of a month; R = 2020-01-15
\* and T = 2024-03-20 give years 4, months 2, days 5.
C2_LargestUnitFirst ==
  (view # NoView /\ selectedDate.time = Midnight
     /\ compareAsc(view.today, selectedDate) >= 0)
    => /\ view.months \in 0..11
       /\ view.days < 31
       /\ (selectedDate = ExampleR /\ view.today = setHours0(ExampleT))
            => (view.years = 4 /\ view.months = 2 /\ view.days = 5)

\* C3: whenever the selected date and today are the same calendar day, the
\* years, months, days, total weeks and total days rendered are all 0, the
\* selected date keeping its time of day while today is cut to midnight.
C3_SameDayAllZero ==
  (view # NoView /\ DayOf(selectedDate) = DayOf(view.today))
    => /\ view.years = 0
       /\ view.months = 0
       /\ view.days = 0
       /\ view.weeks = 0
       /\ view.totalDays = 0

\* the Today button was clicked in the afternoon: the selected date is the
\* current instant and today is the midnight before it
C3_TodayClicked ==
  /\ lastOp = "today"
  /\ selectedDate.time = Afternoon
  /\ view.today.time = Midnight
  /\ DayOf(selectedDate) = DayOf(view.today)

\* C4: the week window has exactly 7 entries, each one calendar day after
\* the previous one; the first is the Monday on or before the selected
\* date, the last is a Sunday, and the selected day is one of the 7.
C4_WeekWindow ==
  view # NoView =>
    /\ Len(view.weekDays) = 7
    /\ \A i \in 1..6 : DayOf(view.weekDays[i + 1]) = DayOf(view.weekDays[i]) + 1
    /\ getDay(view.weekDays[1]) = 1
    /\ DayOf(view.weekDays[1]) <= DayOf(selectedDate)
    /\ DayOf(selectedDate) - DayOf(view.weekDays[1]) <= 6
    /\ getDay(view.weekDays[7]) = 0
    /\ \E i \in 1..7 : DayOf(view.weekDays[i]) = DayOf(selectedDate)

\* a Sunday afternoon is selected: its Monday is six days before it
C4_SundaySelected ==
  /\ lastOp = "render"
  /\ getDay(selectedDate) = 0
  /\ selectedDate.time = Afternoon
  /\ DayOf(view.weekDays[7]) = DayOf(selectedDate)

----------------------------------------------------------------------------
(* Properties of the parser, read off the state after Search               *)

\* C5: parseFlexibleDate returns the date of the first pattern of
\* DATE_FORMATS, in list order, whose parse is valid, and null exactly when
\* no pattern parses; "15/03/2023" is resolved by the third pattern to
\* 15 March 2023.
C5_FirstMatchWins ==
  (lastOp = "search" /\ parseCall # <<>>) =>
    LET text  == parseCall[1]
        valid == {i \in 1..Len(DATE_FORMATS) :
                    isValid(parse(text, DATE_FORMATS[i], now))}
    IN  /\ (valid = {}) <=> (error = <<InvalidDateMsg>>)
        /\ valid # {} =>
             \E i \in valid :
                /\ \A j \in valid : i <= j
                /\ selectedDate = parse(text, DATE_FORMATS[i], now)
        /\ text = <<"1", "5", "/", "0", "3", "/", "2", "0", "2", "3">> =>
             /\ \A j \in valid : 3 <= j
             /\ selectedDate = [year |-> 2023, month |-> 2, date |-> 15,
                                time |-> Midnight]

\* Search ran on "1-2-3", which dd-MM-yyyy, d-M-yyyy and yyyy-MM-dd all
\* parse: the date selected is the one of dd-MM-yyyy
C5_AmbiguousText ==
  /\ lastOp = "search"
  /\ parseCall = << <<"1", "-", "2", "-", "3">> >>
  /\ isValid(parse(parseCall[1], DATE_FORMATS[9], now))
  /\ selectedDate = [year |-> 3, month |-> 1, date |-> 1, time |-> Midnight]

\* C6: parseFlexibleDate returns no date for text whose day does not exist
\* in the month and year read: the date returned has the year, month and
\* day some pattern read, the day within the month; "29.02.2023" is no
\* match and "29.02.2024" is 29 February 2024.
C6_NoWrap ==
  (lastOp = "search" /\ parseCall # <<>>) =>
    LET text == parseCall[1]
    IN  /\ error = <<>> =>
             \E i \in 1..Len(DATE_FORMATS) :
                LET read == scanTokens(DATE_FORMATS[i], 1,
                              [ok |-> TRUE, str |-> text,
                               year |-> 0, month |-> 0, date |-> 0])
                IN  /\ read.ok
                    /\ read.month \in 0..11
                    /\ read.date \in 1..DaysInMonth(read.year, read.month)
                    /\ selectedDate = [year |-> read.year, month |-> read.month,
                                       date |-> read.date, time |-> Midnight]
        /\ text = <<"2", "9", ".", "0", "2", ".", "2", "0", "2", "3">> =>
             (error = <<InvalidDateMsg>> /\ selectedDate = ClockStart)
        /\ text = <<"2", "9", ".", "0", "2", ".", "2", "0", "2", "4">> =>
             (error = <<>> /\ selectedDate = [year |-> 2024, month |-> 1,
                                              date |-> 29, time |-> Midnight])

\* Search ran on "29.02.2023" and reported it invalid
C6_NonLeapRejected ==
  /\ lastOp = "search"
  /\ parseCall = << <<"2", "9", ".", "0", "2", ".", "2", "0", "2", "3">> >>
  /\ error = <<InvalidDateMsg>>

----------------------------------------------------------------------------
(* Properties of the handlers                                              *)

\* C7: Search on text that no pattern parses sets the error message and
\* leaves the selected date and the input text as they were; Search on text
\* that parses selects the parsed date and clears the error.
C7_SearchOutcome ==
  [][(lastOp' = "search" /\ parseCall' # <<>>) =>
       LET parsed == parseFlexibleDate(parseCall'[1], now)
       IN  IF parsed = <<>>
           THEN /\ error' = <<InvalidDateMsg>>
                /\ selectedDate' = selectedDate
                /\ inputValue' = inputValue
           ELSE /\ selectedDate' = parsed[1]
                /\ error' = <<>>]_vars

\* Search ran on "29.02.2023": the message is shown and the text is kept
C7_RejectedKept ==
  /\ lastOp = "search"
  /\ parseCall # <<>>
  /\ error = <<InvalidDateMsg>>
  /\ inputValue = <<"2", "9", ".", "0", "2", ".", "2", "0", "2", "3">>

\* C8: with input text that is empty or only whitespace, Search and blur
\* return without calling parseFlexibleDate and change neither the selected
\* date, the input text nor the error.
C8_BlankShortCircuits ==
  [][(lastOp' \in {"search", "blur"}
        /\ \A i \in 1..Len(inputValue) : IsSpace(inputValue[i]))
       => (parseCall' = <<>> /\ UNCHANGED <<selectedDate, inputValue, error>>)]_vars

\* C9: blur on text that is not blank and that no pattern parses surfaces
\* the error message as Search does; blur on text that parses rewrites the
\* input as dd.MM.yyyy and clears the error; blur never changes the selected
\* date.
C9_BlurValidates ==
  [][(lastOp' = "blur" /\ trim(inputValue) # <<>>) =>
       LET parsed == parseFlexibleDate(trim(inputValue), now)
       IN  /\ selectedDate' = selectedDate
           /\ IF parsed = <<>>
              THEN error' = <<InvalidDateMsg>>
              ELSE /\ inputValue' = formatDate(parsed[1])
                   /\ error' = <<>>]_vars

\* C10: after any sequence of Search, calendar pick, week navigation, Today
\* and grid clicks, the selected date is never a day later than today.
C10_NeverFuture == DayOf(selectedDate) <= DayOf(now)

====
